---------------------------- MODULE Spec2Model ----------------------------
(***************************************************************************)
(* A model of ExportZilla (streamlit_app.py, industry_mapping.py): the     *)
(* cleaning steps applied to an uploaded contact table, the config store,  *)
(* a run of the script from upload to export, and the database upload.     *)
(*                                                                         *)
(* Text is modelled as a sequence of one-character strings, so that the    *)
(* string operations of the code (strip, startswith, replace, split, join, *)
(* lower, substring test) are computed character by character.  A missing  *)
(* cell (pandas NaN) is the value NaN, which is no text.                   *)
(***************************************************************************)
EXTENDS Integers, Sequences, FiniteSets, TLC

VARIABLES
    phase,          \* which step of the script the state belongs to
    language,       \* the locale chosen in the sidebar (selects t)
    phone_hist,     \* a phone cell and its successive normalizations
    input_df,       \* the table a step was given (for process_file: the upload)
    filtered_df,    \* the table as the step left it
    warnings,       \* the st.warning / st.error messages shown so far
    cfg,            \* the configuration: email blacklist and phone prefix map
    toggles,        \* the sidebar's processing-step toggles
    result_df,      \* what process_file returned
    country,        \* what a direct call of detect_country returned
    config_file,    \* config.json, if it exists: its text
    config_cache,   \* the st.cache_data entry of load_config, if any
    loaded,         \* what the calls of load_config returned, the latest last
    saved,          \* the config the latest call of save_config was given
    file_cache,     \* the st.cache_data entries of process_file
    db_table,       \* the committed content of the database table
    db_pending,     \* the rows inserted by the latest transaction not committed
    preview,        \* the table st.dataframe showed in the latest run
    download,       \* the table written to the downloadable spreadsheet
    view            \* the toggles and selections of the filter section

\* The rest of the session: config store, caches, database, outputs
sessionVars == <<config_file, config_cache, loaded, saved, file_cache,
                 db_table, db_pending, preview, download, view>>

vars == <<phase, language, phone_hist, input_df, filtered_df, warnings,
          cfg, toggles, result_df, country, sessionVars>>

\* The variables of the upload pipeline and of the session, idle in the
\* single-step checks
pipelineVars == <<cfg, toggles, result_df, country, sessionVars>>

---------------------------------------------------------------------------
(* Values and text                                                          *)

\* pandas NaN: the missing cell.  No text contains the element "NaN".
NaN == <<"NaN">>

\* pd.notna(x)
notna(x) == x # NaN

\* str(x) / Series.astype(str): a missing cell becomes the text 'nan'
AsStr(x) == IF x = NaN THEN <<"n", "a", "n">> ELSE x

\* The texts over the characters A of length at most n
Texts(A, n) == UNION {[1..k -> A] : k \in 0..n}

\* The elements of seq at the positions in keep, in order
SelectAt(seq, keep) ==
    LET F[i \in 0..Len(seq)] ==
            IF i = 0 THEN <<>>
            ELSE IF i \in keep THEN Append(F[i - 1], seq[i]) ELSE F[i - 1]
    IN  F[Len(seq)]

IsSpace(c) == c = " "

IsDigitChar(c) == c \in {"0", "1", "2", "3", "4", "5", "6", "7", "8", "9"}

RECURSIVE LStrip(_)
\* str.lstrip()
LStrip(s) == IF s # <<>> /\ IsSpace(Head(s)) THEN LStrip(Tail(s)) ELSE s

RECURSIVE RStrip(_)
\* str.rstrip()
RStrip(s) ==
    IF s # <<>> /\ IsSpace(s[Len(s)]) THEN RStrip(SubSeq(s, 1, Len(s) - 1)) ELSE s

\* str.strip()
Strip(s) == RStrip(LStrip(s))

\* str.startswith(p)
StartsWith(s, p) == Len(p) <= Len(s) /\ SubSeq(s, 1, Len(p)) = p

\* str.replace(c, ''): every occurrence of the character c removed
RemoveChar(s, c) == SelectAt(s, {i \in 1..Len(s) : s[i] # c})

\* str.isdigit(): non-empty and digits only
isdigit(s) == s # <<>> /\ \A i \in 1..Len(s) : IsDigitChar(s[i])

\* `p in s` for texts: p occurs in s as a substring
Contains(s, p) ==
    \E i \in 0..(Len(s) - Len(p)) : SubSeq(s, i + 1, i + Len(p)) = p

RECURSIVE Split(_, _)
\* str.split(sep) for a non-empty separator: the segments, in order
Split(s, sep) ==
    LET At(i) == SubSeq(s, i, i + Len(sep) - 1) = sep
        hits == {i \in 1..(Len(s) - Len(sep) + 1) : At(i)}
    IN  IF hits = {}
        THEN <<s>>
        ELSE LET k == CHOOSE i \in hits : \A j \in hits : i <= j
             IN  <<SubSeq(s, 1, k - 1)>> \o Split(SubSeq(s, k + Len(sep), Len(s)), sep)

RECURSIVE Join(_, _)
\* sep.join(parts)
Join(parts, sep) ==
    IF parts = <<>> THEN <<>>
    ELSE IF Len(parts) = 1 THEN parts[1]
    ELSE parts[1] \o sep \o Join(Tail(parts), sep)

LowerChar(c) ==
    CASE c = "A" -> "a" [] c = "B" -> "b" [] c = "G" -> "g" [] c = "H" -> "h"
      [] c = "N" -> "n" [] c = "P" -> "p" [] c = "R" -> "r" [] c = "X" -> "x"
      [] OTHER -> c

\* str.lower()
Lower(s) == [i \in 1..Len(s) |-> LowerChar(s[i])]

---------------------------------------------------------------------------
(* Tables (pandas DataFrame): column names in order, rows whose i-th cell   *)
(* belongs to the i-th column, and the index: one label per row, with the  *)
(* index's name.                                                           *)

EmptyDf == [cols |-> <<>>, rows |-> <<>>, index |-> <<>>, index_name |-> "None"]

\* `name in df.columns`
HasCol(df, name) == \E i \in 1..Len(df.cols) : df.cols[i] = name

\* The position of the first column called name
ColIndex(df, name) ==
    CHOOSE i \in 1..Len(df.cols) :
        df.cols[i] = name /\ \A j \in 1..(i - 1) : df.cols[j] # name

\* row[name]
Cell(df, row, name) == row[ColIndex(df, name)]

\* df[name] = series: the column replaced; a new column is appended on the right
SetColumn(df, name, series) ==
    IF HasCol(df, name)
    THEN [df EXCEPT !.rows =
            [r \in 1..Len(df.rows) |->
                [df.rows[r] EXCEPT ![ColIndex(df, name)] = series[r]]]]
    ELSE [df EXCEPT !.cols = Append(df.cols, name),
                    !.rows = [r \in 1..Len(df.rows) |-> Append(df.rows[r], series[r])]]

\* df[mask]: the rows at the positions in keep, with their index labels
SelectRows(df, keep) ==
    [df EXCEPT !.rows = SelectAt(df.rows, keep), !.index = SelectAt(df.index, keep)]

\* df.loc[:, mask]: the columns at the positions in keep
SelectCols(df, keep) ==
    [df EXCEPT !.cols = SelectAt(df.cols, keep),
               !.rows = [r \in 1..Len(df.rows) |-> SelectAt(df.rows[r], keep)]]

\* df.drop(columns=names): every column with one of the names removed
DropCols(df, names) ==
    SelectCols(df, {i \in 1..Len(df.cols) : df.cols[i] \notin names})

\* df.rename(columns={old: new})
RenameCol(df, old, new) ==
    [df EXCEPT !.cols = [i \in 1..Len(df.cols) |->
                            IF df.cols[i] = old THEN new ELSE df.cols[i]]]

\* df[name] as a series
Column(df, name) == [r \in 1..Len(df.rows) |-> Cell(df, df.rows[r], name)]

\* The tables with the columns cs whose cells in column i come from vals[i]
\* and that have between lo and hi rows
Tables(cs, vals, lo, hi) ==
    LET RowSet == {r \in [1..Len(cs) -> UNION {vals[i] : i \in 1..Len(cs)}] :
                      \A i \in 1..Len(cs) : r[i] \in vals[i]}
    IN  {[cols |-> cs, rows |-> rs, index |-> [i \in 1..Len(rs) |-> i - 1],
          index_name |-> "None"] : rs \in UNION {[1..n -> RowSet] : n \in lo..hi}}

---------------------------------------------------------------------------
(* Locale tables.  translations.py is not part of the sources at hand; the *)
(* column names are those translate_columns maps to themselves.  Cyrillic  *)
(* names are written in Latin letters.                                     *)

translations ==
    [English |->
        [column_email |-> "Email", column_phone |-> "Phone number",
         column_websites |-> "Websites", column_address |-> "Address",
         column_address_1 |-> "Address 1", column_address_2 |-> "Address 2",
         column_address_3 |-> "Address 3", column_country |-> "Country",
         column_main_category |-> "Main Category",
         column_subcategory |-> "Subcategory"],
     Russian |->
        [column_email |-> "Elektronnaya pochta", column_phone |-> "Telefon",
         column_websites |-> "Veb-sayty", column_address |-> "Adres",
         column_address_1 |-> "Adres 1", column_address_2 |-> "Adres 2",
         column_address_3 |-> "Adres 3", column_country |-> "Strana",
         column_main_category |-> "Osnovnaya kategoriya",
         column_subcategory |-> "Podkategoriya"]]

Languages == {"English", "Russian"}

\* t = translations[language]
t == translations[language]

---------------------------------------------------------------------------
(* Configuration                                                            *)

\* A country label as a cell value: compared as a whole
Label(name) == <<name>>

\* `default` of load_config.  The prefix map is a dict: its entries in
\* insertion order, each a key k and a label v.
DefaultConfig ==
    [email_blacklist |-> << <<"p", "r">>, <<"h", "r">>, <<"p", "r", "e", "s", "s">> >>,
     phone_prefix_map |-> << [k |-> <<"+", "1">>, v |-> Label("United States/Canada")],
                             [k |-> <<"+", "4", "4">>, v |-> Label("United Kingdom")] >>]

\* The sidebar toggles, all on by default
DefaultToggles ==
    [remove_empty_cols |-> TRUE, remove_duplicates |-> TRUE,
     filter_emails_step |-> TRUE, reset_index_step |-> TRUE]

\* The filter section as it first shows: remove and rename columns on,
\* consolidation off, no country and no main category selected
DefaultView ==
    [remove_columns_toggle |-> TRUE, rename_columns_toggle |-> TRUE,
     consolidate_rows |-> FALSE, selected_countries |-> {},
     selected_main_categories |-> {}]

\* The database has no table filtered_data
NoTable == [exists |-> FALSE, cols |-> <<>>, rows |-> <<>>]

\* No config file read or written, nothing cached, an absent database
\* table, nothing shown.  What may be absent is an empty tuple when absent
\* and a one-element tuple when present.
IdleSession ==
    /\ config_file = <<>>
    /\ config_cache = <<>>
    /\ loaded = <<>>
    /\ saved = <<>>
    /\ file_cache = {}
    /\ db_table = NoTable
    /\ db_pending = <<>>
    /\ preview = <<>>
    /\ download = <<>>
    /\ view = DefaultView

IdlePipeline ==
    /\ cfg = DefaultConfig
    /\ toggles = DefaultToggles
    /\ result_df = EmptyDf
    /\ country = <<>>
    /\ IdleSession

---------------------------------------------------------------------------
(* Phone normalization: process_file step 4                                 *)

\* fix_phone_number with the leading-'+' test dropped
fix_phone_number_always_plus(val) ==
    LET v == Strip(AsStr(val))
    IN  IF v # <<>> /\ isdigit(RemoveChar(v, "+")) THEN <<"+">> \o v ELSE v

\* def fix_phone_number(val)
fix_phone_number(val) ==
    LET v == Strip(AsStr(val))
    IN  IF v # <<>> /\ isdigit(RemoveChar(v, "+")) /\ ~StartsWith(v, <<"+">>)
        THEN <<"+">> \o v
        ELSE v

\* df[phone_col].astype(str).str.strip().apply(fix_phone_number), one cell
NormalizePhoneCell(x) == fix_phone_number(Strip(AsStr(x)))

MaxPhoneLen == 3
MaxCalls == 2
PhoneChars == {"+", "1", " ", "a"}
PhoneInputs == Texts(PhoneChars, MaxPhoneLen) \cup {NaN}

InitPhone ==
    /\ phase = "phone"
    /\ language = "English"
    /\ phone_hist \in {<<x>> : x \in PhoneInputs}
    /\ input_df = EmptyDf
    /\ filtered_df = EmptyDf
    /\ warnings = {}
    /\ IdlePipeline

\* One more normalization of the cell as it now stands
NormalizePhone ==
    /\ phase = "phone"
    /\ Len(phone_hist) <= MaxCalls
    /\ phone_hist' = Append(phone_hist, NormalizePhoneCell(phone_hist[Len(phone_hist)]))
    /\ UNCHANGED <<phase, language, input_df, filtered_df, warnings, pipelineVars>>

NextPhone == NormalizePhone

SpecPhone == InitPhone /\ [][NextPhone]_vars

\* C5: phone normalization is idempotent: normalizing a normalized value
\* (a missing cell and a value with an inner '+' included) returns it unchanged.
C5_PhoneIdempotent ==
    Len(phone_hist) >= 3 => phone_hist[3] = phone_hist[2]

\* C5 witness: a digits-only value with an inner '+' was normalized twice
C5_Witness ==
    /\ Len(phone_hist) >= 3
    /\ phone_hist[1] = <<"1", "+", "1">>
    /\ phone_hist[2] = <<"+", "1", "+", "1">>

\* C8: normalization trims, and prepends '+' exactly when the trimmed value
\* is digits only; every other value comes back as trimmed.
C8_OnlyAllDigitsChange ==
    Len(phone_hist) >= 2 =>
        LET trimmed == Strip(AsStr(phone_hist[1]))
        IN  phone_hist[2] = IF isdigit(trimmed) THEN <<"+">> \o trimmed ELSE trimmed

---------------------------------------------------------------------------
(* Website normalization                                                    *)

\* normalize_url inside clean_website_column
normalize_url(url) ==
    IF notna(url) /\ Contains(url, <<"/", "/">>)
    THEN LET parts == Split(url, <<"/">>)
         IN  IF Len(parts) > 2
             THEN parts[1] \o <<"/", "/">> \o parts[3] \o <<"/">>
             ELSE url
    ELSE url

\* def clean_website_column(df, website_col): the table returned
clean_website_column(df, website_col) ==
    IF HasCol(df, website_col)
    THEN SetColumn(df, website_col,
                   [r \in 1..Len(df.rows) |->
                       normalize_url(Cell(df, df.rows[r], website_col))])
    ELSE df

MaxUrlLen == 4
MaxWebRows == 1
UrlChars == {"h", ":", "/"}
UrlInputs == Texts(UrlChars, MaxUrlLen) \cup {NaN}

InitWebsite ==
    /\ phase = "website"
    /\ language \in Languages
    /\ phone_hist = <<>>
    /\ input_df \in Tables(<<t.column_websites>>, <<UrlInputs>>, 1, MaxWebRows)
                        \cup Tables(<<>>, <<>>, 1, MaxWebRows)
    /\ filtered_df = input_df
    /\ warnings = {}
    /\ IdlePipeline

\* filtered_df = clean_website_column(filtered_df, t['column_websites'])
CleanWebsiteColumn ==
    /\ phase = "website"
    /\ filtered_df' = clean_website_column(filtered_df, t.column_websites)
    /\ warnings' = IF HasCol(filtered_df, t.column_websites)
                   THEN warnings
                   ELSE warnings \cup {"website column not found"}
    /\ phase' = "website_done"
    /\ UNCHANGED <<language, phone_hist, input_df, pipelineVars>>

NextWebsite == CleanWebsiteColumn

SpecWebsite == InitWebsite /\ [][NextWebsite]_vars

\* The first three '/'-delimited segments joined back with '/', plus a '/'
FirstThreeSegments(url) ==
    Join(SubSeq(Split(url, <<"/">>), 1, 3), <<"/">>) \o <<"/">>

\* C9: a URL holding '//' becomes its first three '/'-segments joined with
\* '/' plus a trailing '/'; a text without '//' and a missing cell are unchanged.
C9_FirstThreeSegments ==
    (phase = "website_done" /\ HasCol(input_df, t.column_websites)) =>
        \A r \in 1..Len(input_df.rows) :
            LET url == Cell(input_df, input_df.rows[r], t.column_websites)
                out == Cell(filtered_df, filtered_df.rows[r], t.column_websites)
            IN  out = IF notna(url) /\ Contains(url, <<"/", "/">>)
                      THEN FirstThreeSegments(url)
                      ELSE url

---------------------------------------------------------------------------
(* Address consolidation                                                    *)

\* `str(x).strip() if pd.notna(x) else ""`
StripOrEmpty(x) == IF notna(x) THEN Strip(AsStr(x)) ELSE <<>>

\* replace_address inside clean_address_columns
replace_address(df, row, tr) ==
    LET a1 == Cell(df, row, tr.column_address_1)
        a2 == Cell(df, row, tr.column_address_2)
        a3 == Cell(df, row, tr.column_address_3)
        co == Cell(df, row, tr.column_country)
    IN  IF notna(a1) /\ notna(co) /\ Strip(AsStr(a1)) = Strip(AsStr(co))
        THEN Strip(StripOrEmpty(a2) \o <<" ">> \o StripOrEmpty(a3))
        ELSE Strip(StripOrEmpty(a1) \o <<" ">> \o StripOrEmpty(a2)
                       \o <<" ">> \o StripOrEmpty(a3))

\* all(col in df.columns for col in [addr1, addr2, addr3, country])
HasAddressCols(df, tr) ==
    /\ HasCol(df, tr.column_address_1)
    /\ HasCol(df, tr.column_address_2)
    /\ HasCol(df, tr.column_address_3)
    /\ HasCol(df, tr.column_country)

\* def clean_address_columns(df, t): the table returned
clean_address_columns(df, tr) ==
    IF HasAddressCols(df, tr)
    THEN RenameCol(
             DropCols(SetColumn(df, tr.column_address_1,
                                [r \in 1..Len(df.rows) |->
                                    replace_address(df, df.rows[r], tr)]),
                      {tr.column_address_2, tr.column_address_3}),
             tr.column_address_1, tr.column_address)
    ELSE df

MaxAddrLen == 2
MaxPartLen == 1
MaxAddrRows == 1
AddrChars == {"g", "G", " "}
AddrInputs == Texts(AddrChars, MaxAddrLen) \cup {NaN}
PartInputs == Texts({"b", " "}, MaxPartLen) \cup {NaN}

InitAddress ==
    /\ phase = "address"
    /\ language \in Languages
    /\ phone_hist = <<>>
    /\ input_df \in
          Tables(<<t.column_address_1, t.column_address_2, t.column_address_3,
                   t.column_country>>,
                 <<AddrInputs, PartInputs, PartInputs, AddrInputs>>, 1, MaxAddrRows)
          \cup Tables(<<t.column_address_1, t.column_address_2, t.column_address_3>>,
                      <<AddrInputs, PartInputs, PartInputs>>, 1, MaxAddrRows)
    /\ filtered_df = input_df
    /\ warnings = {}
    /\ IdlePipeline

\* filtered_df = clean_address_columns(filtered_df, t)
CleanAddressColumns ==
    /\ phase = "address"
    /\ filtered_df' = clean_address_columns(filtered_df, t)
    /\ warnings' = IF HasAddressCols(filtered_df, t)
                   THEN warnings
                   ELSE warnings \cup {"address/country columns missing"}
    /\ phase' = "address_done"
    /\ UNCHANGED <<language, phone_hist, input_df, pipelineVars>>

NextAddress == CleanAddressColumns

SpecAddress == InitAddress /\ [][NextAddress]_vars

\* Address part 1 equals the country ignoring letter case and outer blanks
SameAsCountry(a1, co) ==
    notna(a1) /\ notna(co) /\ Lower(Strip(a1)) = Lower(Strip(co))

\* C7: per row, Address is parts 2 and 3 joined by a space when part 1 equals
\* the country ignoring case and surrounding whitespace, and parts 1, 2 and 3
\* joined by a space otherwise, a missing part counting as the empty text; the
\* part 2 and part 3 columns are gone and part 1's column is called Address.
C7_AddressConsolidation ==
    (phase = "address_done" /\ HasAddressCols(input_df, t)) =>
        /\ ~HasCol(filtered_df, t.column_address_2)
        /\ ~HasCol(filtered_df, t.column_address_3)
        /\ ~HasCol(filtered_df, t.column_address_1)
        /\ HasCol(filtered_df, t.column_address)
        /\ \A r \in 1..Len(input_df.rows) :
              LET row == input_df.rows[r]
                  a1 == Cell(input_df, row, t.column_address_1)
                  a2 == StripOrEmpty(Cell(input_df, row, t.column_address_2))
                  a3 == StripOrEmpty(Cell(input_df, row, t.column_address_3))
                  co == Cell(input_df, row, t.column_country)
                  out == Cell(filtered_df, filtered_df.rows[r], t.column_address)
              IN  out = IF SameAsCountry(a1, co)
                        THEN Strip(a2 \o <<" ">> \o a3)
                        ELSE Strip(StripOrEmpty(a1) \o <<" ">> \o a2 \o <<" ">> \o a3)

---------------------------------------------------------------------------
(* Industry categorization.  An industry label is compared as a whole, so  *)
(* it is modelled as a text of one element, the label.                     *)

\* The taxonomy of industry_mapping.py: main categories in dict order, each
\* with the keys of its subcategory dict
industry_mapping == <<
    \* industry_mapping.py line 3
    [main |-> "Agriculture & Food",
     subs |->
          {"Crop farm", "Livestock farm", "Fishery",
           "Agricultural machinery supplier", "Food processing company",
           "Dairy producer", "Meat processing plant", "Bakery",
           "Beverage company", "Fertilizer manufacturer"}],
    \* industry_mapping.py line 15
    [main |-> "Business Services",
     subs |->
          {"Corporate office", "Business center", "Consulting firm",
           "Law firm", "Accounting firm", "Marketing agency",
           "Recruitment agency", "Non-profit organization",
           "Research institute", "Bank", "Insurance company",
           "Asset management firm", "Venture capital firm", "Fintech startup"}],
    \* industry_mapping.py line 31
    [main |-> "Chemicals, Pharmaceuticals & Plastics",
     subs |->
          {"Chemical manufacturer", "Industrial chemicals wholesaler",
           "Pharmaceutical company", "Biotechnology firm"}],
    \* industry_mapping.py line 37
    [main |-> "Construction",
     subs |->
          {"Construction contractor", "Building materials supplier",
           "Architecture firm", "Property developer", "Real estate agency"}],
    \* industry_mapping.py line 44
    [main |-> "Education, Training & Organisations",
     subs |->
          {"School", "E-learning provider"}],
    \* industry_mapping.py line 48
    [main |-> "Electrical, Electronics & Optical",
     subs |->
          {"Electrical products wholesaler", "Electrical equipment supplier",
           "Electrical engineer", "Hardware manufacturer",
           "Semiconductor manufacturer",
           "Telecommunications equipment supplier",
           "Telecommunications service provider",
           "Telecommunications contractor", "Cable company",
           "Security system supplier"}],
    \* industry_mapping.py line 60
    [main |-> "Energy, Environment",
     subs |->
          {"Oil refinery", "Oil & natural gas company",
           "Oil field equipment supplier", "Oil wholesaler",
           "Diesel fuel supplier", "Oil store", "Oilfield",
           "Solar energy company", "Solar energy system service",
           "Solar energy equipment supplier",
           "Solar hot water system supplier", "Electric utility company",
           "Power station", "Energy equipment and solutions", "Coal mining",
           "Coal processing", "Wind energy company", "Hydropower plant"}],
    \* industry_mapping.py line 80
    [main |-> "IT, Internet & R&D",
     subs |->
          {"Software company", "IT services provider", "E-commerce platform",
           "Cybersecurity firm", "AI solutions provider"}],
    \* industry_mapping.py line 87
    [main |-> "Leisure & Tourism",
     subs |->
          {"TV broadcaster", "Film production company", "Music label",
           "Game developer", "Creative agency"}],
    \* industry_mapping.py line 94
    [main |-> "Metals, Machinery & Engineering",
     subs |->
          {"Industrial equipment supplier", "Equipment rental agency",
           "Manufacturer", "Shipyard", "Shipbuilding and repair company",
           "Metal processing", "Steel manufacturer", "Car manufacturer",
           "Aerospace company", "Defense contractor",
           "Automation solutions provider"}],
    \* industry_mapping.py line 107
    [main |-> "Minerals",
     subs |->
          {"Mining company", "Mineral processing"}],
    \* industry_mapping.py line 111
    [main |-> "Paper, Printing & Publishing",
     subs |->
          {"Paper mill", "Packaging company", "Printing service"}],
    \* industry_mapping.py line 116
    [main |-> "Retail & Traders",
     subs |->
          {"Retail chain", "Consumer electronics retailer", "Luxury brand",
           "Household products manufacturer"}],
    \* industry_mapping.py line 122
    [main |-> "Textiles, Clothing, Leather, Watchmaking, Jewellery",
     subs |->
          {"Textile manufacturer", "Clothing store"}],
    \* industry_mapping.py line 126
    [main |-> "Transport & Logistics",
     subs |->
          {"Distribution service", "Shipping company", "Airline",
           "Railway operator", "Trucking company", "Warehouse",
           "Courier service"}]
>>

\* map_to_main_and_subcategory that forgets the value it could not place
map_to_main_and_subcategory_drop_value(value) ==
    LET hits == {i \in 1..Len(industry_mapping) :
                    \E k \in industry_mapping[i].subs : value = Label(k)}
    IN  IF hits # {}
        THEN <<Label(industry_mapping[CHOOSE i \in hits : \A j \in hits : i <= j].main),
               value>>
        ELSE <<Label("Other"), NaN>>

\* def map_to_main_and_subcategory(value): the first main category, in dict
\* order, whose subcategory keys hold the value; else ("Other", value)
map_to_main_and_subcategory(value) ==
    LET hits == {i \in 1..Len(industry_mapping) :
                    \E k \in industry_mapping[i].subs : value = Label(k)}
    IN  IF hits # {}
        THEN <<Label(industry_mapping[CHOOSE i \in hits : \A j \in hits : i <= j].main),
               value>>
        ELSE <<Label("Other"), value>>

\* industry_column: "Column_12", else "Kategoriya" (Cyrillic in the code), else None
industry_column(df) ==
    IF HasCol(df, "Column_12") THEN "Column_12"
    ELSE IF HasCol(df, "Kategoriya") THEN "Kategoriya"
    ELSE "None"

\* `industry_column and (main not in df.columns or sub not in df.columns)`
MappingApplies(df, tr) ==
    /\ industry_column(df) # "None"
    /\ ~HasCol(df, tr.column_main_category) \/ ~HasCol(df, tr.column_subcategory)

\* filtered_df[[main, sub]] = filtered_df[industry_column].apply(...)
WithCategories(df, tr) ==
    LET ic == industry_column(df)
        pairs == [r \in 1..Len(df.rows) |->
                     map_to_main_and_subcategory(Cell(df, df.rows[r], ic))]
    IN  SetColumn(SetColumn(df, tr.column_main_category,
                            [r \in 1..Len(df.rows) |-> pairs[r][1]]),
                  tr.column_subcategory, [r \in 1..Len(df.rows) |-> pairs[r][2]])

MaxIndustryRows == 1
SubcategoryKeys == UNION {industry_mapping[i].subs : i \in 1..Len(industry_mapping)}
IndustryInputs ==
    {Label(k) : k \in SubcategoryKeys}
        \cup {Label("bakery"), Label("Bakery "), Label("Unlisted trade"),
              Label("Other"), Label("Construction"), <<>>, NaN}

InitIndustry ==
    /\ phase = "industry"
    /\ language \in Languages
    /\ phone_hist = <<>>
    /\ input_df \in
          Tables(<<"Column_12">>, <<IndustryInputs>>, 1, MaxIndustryRows)
          \cup Tables(<<"Kategoriya">>, <<IndustryInputs>>, 1, MaxIndustryRows)
          \cup Tables(<<"Column_2">>, <<{NaN, Label("Bakery")}>>, 1, MaxIndustryRows)
          \cup Tables(<<"Column_12", t.column_main_category>>,
                      <<{Label("Bakery"), NaN}, {Label("Construction")}>>,
                      1, MaxIndustryRows)
          \cup Tables(<<"Column_12", t.column_main_category, t.column_subcategory>>,
                      <<{Label("Bakery")}, {Label("Other")}, {NaN, Label("Bakery")}>>,
                      1, MaxIndustryRows)
    /\ filtered_df = input_df
    /\ warnings = {}
    /\ IdlePipeline

\* The script's "Ensure Main Category and Subcategory columns are added"
CategorizeIndustry ==
    /\ phase = "industry"
    /\ filtered_df' = IF MappingApplies(filtered_df, t)
                      THEN WithCategories(filtered_df, t)
                      ELSE filtered_df
    /\ warnings' = IF industry_column(filtered_df) = "None"
                   THEN warnings \cup {"Column_12 not found in the DataFrame2."}
                   ELSE warnings
    /\ phase' = "industry_done"
    /\ UNCHANGED <<language, phone_hist, input_df, pipelineVars>>

NextIndustry == CategorizeIndustry

SpecIndustry == InitIndustry /\ [][NextIndustry]_vars

\* The rows of the table the mapping was applied to, each with its industry
\* value and the pair it was given
Categorized(r) ==
    [value |-> Cell(input_df, input_df.rows[r], industry_column(input_df)),
     main |-> Cell(filtered_df, filtered_df.rows[r], t.column_main_category),
     sub |-> Cell(filtered_df, filtered_df.rows[r], t.column_subcategory)]

\* Every row has its pair: a key of the taxonomy gets every (so: the one)
\* main category that holds it, any other value gets "Other"; the
\* subcategory is the input value
PairedAsTaxonomy(c) ==
    /\ c.sub = c.value
    /\ \A i \in 1..Len(industry_mapping) :
          (\E k \in industry_mapping[i].subs : c.value = Label(k))
              => c.main = Label(industry_mapping[i].main)
    /\ (\A k \in SubcategoryKeys : c.value # Label(k)) => c.main = Label("Other")

\* C4 as stated: categorization is total, a taxonomy key gets the main
\* category holding it, any other value (a missing one included) gets "Other"
\* with the subcategory equal to the input value and never null.
C4_TotalNeverNull ==
    (phase = "industry_done" /\ MappingApplies(input_df, t)) =>
        /\ HasCol(filtered_df, t.column_main_category)
        /\ HasCol(filtered_df, t.column_subcategory)
        /\ Len(filtered_df.rows) = Len(input_df.rows)
        /\ \A r \in 1..Len(input_df.rows) :
              PairedAsTaxonomy(Categorized(r)) /\ notna(Categorized(r).sub)

\* C4 amended: categorization is total, a taxonomy key gets the main category
\* holding it, any other value gets "Other" with the subcategory equal to the
\* input value; the subcategory is null exactly when the input value is missing.
C4_TotalSubIsInput ==
    (phase = "industry_done" /\ MappingApplies(input_df, t)) =>
        /\ HasCol(filtered_df, t.column_main_category)
        /\ HasCol(filtered_df, t.column_subcategory)
        /\ Len(filtered_df.rows) = Len(input_df.rows)
        /\ \A r \in 1..Len(input_df.rows) :
              /\ PairedAsTaxonomy(Categorized(r))
              /\ notna(Categorized(r).sub) <=> notna(Categorized(r).value)
              /\ notna(Categorized(r).main)

\* C4 witness: a missing industry value was mapped to ("Other", missing)
C4_Witness ==
    /\ phase = "industry_done"
    /\ MappingApplies(input_df, t)
    /\ Categorized(1).value = NaN
    /\ Categorized(1).main = Label("Other")
    /\ Categorized(1).sub = NaN

---------------------------------------------------------------------------
(* Consolidation of rows by company                                         *)

\* List of common/free email domains
free_email_domains == {
    \* gmail.com
    <<"g", "m", "a", "i", "l", ".", "c", "o", "m">>,
    \* hotmail.com
    <<"h", "o", "t", "m", "a", "i", "l", ".", "c", "o", "m">>,
    \* yahoo.com
    <<"y", "a", "h", "o", "o", ".", "c", "o", "m">>,
    \* outlook.com
    <<"o", "u", "t", "l", "o", "o", "k", ".", "c", "o", "m">>,
    \* aol.com
    <<"a", "o", "l", ".", "c", "o", "m">>,
    \* icloud.com
    <<"i", "c", "l", "o", "u", "d", ".", "c", "o", "m">>,
    \* mail.ru
    <<"m", "a", "i", "l", ".", "r", "u">>,
    \* yandex.ru
    <<"y", "a", "n", "d", "e", "x", ".", "r", "u">>,
    \* protonmail.com
    <<"p", "r", "o", "t", "o", "n", "m", "a", "i", "l", ".", "c", "o", "m">>,
    \* zoho.com
    <<"z", "o", "h", "o", ".", "c", "o", "m">>,
    \* gmx.com
    <<"g", "m", "x", ".", "c", "o", "m">>,
    \* mail.com
    <<"m", "a", "i", "l", ".", "c", "o", "m">>,
    \* bk.ru
    <<"b", "k", ".", "r", "u">>,
    \* inbox.ru
    <<"i", "n", "b", "o", "x", ".", "r", "u">>,
    \* list.ru
    <<"l", "i", "s", "t", ".", "r", "u">>,
    \* rambler.ru
    <<"r", "a", "m", "b", "l", "e", "r", ".", "r", "u">>}

\* normalize_url of the consolidation block: the host of a URL holding '//',
\* else the text itself, lower-cased; None for a missing cell
consolidate_normalize_url(url) ==
    IF notna(url)
    THEN IF Contains(url, <<"/", "/">>)
         THEN Lower(Split(url, <<"/">>)[3])
         ELSE Lower(url)
    ELSE NaN

\* def extract_company_identifier(row); None is the missing value
extract_company_identifier(df, row, tr) ==
    LET email == IF HasCol(df, tr.column_email)
                 THEN Cell(df, row, tr.column_email) ELSE NaN
        website == IF HasCol(df, tr.column_websites)
                   THEN Cell(df, row, tr.column_websites) ELSE NaN
    IN  IF notna(website) THEN consolidate_normalize_url(website)
        ELSE IF notna(email) /\ Contains(email, <<"@">>)
             THEN LET parts == Split(email, <<"@">>)
                      domain == Lower(parts[Len(parts)])
                  IN  IF domain \notin free_email_domains THEN domain ELSE NaN
             ELSE NaN

\* Series.dropna()
dropna(series) == SelectAt(series, {i \in 1..Len(series) : notna(series[i])})

\* Series.unique(): the first occurrence of each value, in order
unique(series) ==
    SelectAt(series, {i \in 1..Len(series) : \A j \in 1..(i - 1) : series[j] # series[i]})

\* consolidate_column that joins every value of the group, repeats included
consolidate_column_no_unique(series) == Join(dropna(series), <<";", " ">>)

\* def consolidate_column(series)
consolidate_column(series) == Join(unique(dropna(series)), <<";", " ">>)

\* The consolidation block under `if email_exists or websites_exists`
consolidate(df, tr) ==
    LET ids == [r \in 1..Len(df.rows) |-> extract_company_identifier(df, df.rows[r], tr)]
        \* filtered_df.dropna(subset=[company_identifier_col])
        keptIds == dropna(ids)
        kept == SelectRows(df, {r \in 1..Len(ids) : notna(ids[r])})
        n == Len(kept.rows)
        \* company_group[col].transform(consolidate_column), for row r
        Merged(col, r) ==
            consolidate_column(
                SelectAt(Column(kept, col), {q \in 1..n : keptIds[q] = keptIds[r]}))
        MergeCol(d, col) ==
            IF HasCol(d, col)
            THEN [d EXCEPT !.rows =
                    [r \in 1..n |-> [d.rows[r] EXCEPT ![ColIndex(d, col)] = Merged(col, r)]]]
            ELSE d
        merged == MergeCol(MergeCol(MergeCol(kept, tr.column_email), tr.column_phone),
                           tr.column_websites)
    IN  \* drop_duplicates(subset=[company_identifier_col]): first row of each group
        SelectRows(merged, {r \in 1..n : \A q \in 1..(r - 1) : keptIds[q] # keptIds[r]})

\* `email_exists or websites_exists`
CanConsolidate(df, tr) == HasCol(df, tr.column_email) \/ HasCol(df, tr.column_websites)

MaxConsRows == 2
ConsEmails == {NaN, <<"a", "@", "x">>, <<"b", "@", "X">>, <<"a", "@", "b", "k", ".", "r", "u">>}
ConsPhones == {NaN, <<"+", "1">>}
ConsWebsites == {NaN, <<"h", ":", "/", "/", "x", "/">>, <<"y">>}

InitConsolidate ==
    /\ phase = "consolidate"
    /\ language \in Languages
    /\ phone_hist = <<>>
    /\ input_df \in
          Tables(<<t.column_email, t.column_phone, t.column_websites>>,
                 <<ConsEmails, ConsPhones, ConsWebsites>>, 0, MaxConsRows)
          \cup Tables(<<t.column_email, t.column_phone>>,
                      <<ConsEmails, ConsPhones>>, 0, MaxConsRows)
          \cup Tables(<<t.column_websites>>, <<ConsWebsites>>, 0, MaxConsRows)
          \cup Tables(<<t.column_phone>>, <<ConsPhones>>, 0, MaxConsRows)
    /\ filtered_df = input_df
    /\ warnings = {}
    /\ IdlePipeline

\* The script's `if consolidate_rows:` block
ConsolidateRows ==
    /\ phase = "consolidate"
    /\ filtered_df' = IF CanConsolidate(filtered_df, t)
                      THEN consolidate(filtered_df, t)
                      ELSE filtered_df
    /\ warnings' = IF CanConsolidate(filtered_df, t)
                   THEN warnings
                   ELSE warnings \cup {"no email or website column to consolidate"}
    /\ phase' = "consolidate_done"
    /\ UNCHANGED <<language, phone_hist, input_df, pipelineVars>>

NextConsolidate == ConsolidateRows

SpecConsolidate == InitConsolidate /\ [][NextConsolidate]_vars

\* The company identifier of each row of the table given to the step
InputIds ==
    [r \in 1..Len(input_df.rows) |->
        extract_company_identifier(input_df, input_df.rows[r], t)]

\* The identifiers of the groups, in the order their first rows appear; the
\* j-th row of the result is the row kept for the j-th group
GroupIds == unique(dropna(InputIds))

\* How many elements of seq equal v
Count(seq, v) == Cardinality({i \in 1..Len(seq) : seq[i] = v})

\* The mergeable columns the table has
MergeableCols ==
    {c \in {t.column_email, t.column_phone, t.column_websites} : HasCol(input_df, c)}

\* C3: consolidation never increases the row count, and each distinct
\* non-missing value a group's rows hold in a mergeable column (email, phone,
\* website) is listed exactly once in the '; '-joined value of the one row
\* kept for the group.
C3_ConsolidationKeepsValuesOnce ==
    (phase = "consolidate_done" /\ CanConsolidate(input_df, t)) =>
        /\ Len(filtered_df.rows) <= Len(input_df.rows)
        /\ Len(filtered_df.rows) = Len(GroupIds)
        /\ \A j \in 1..Len(GroupIds) : \A c \in MergeableCols :
              \A r \in 1..Len(input_df.rows) :
                  LET v == Cell(input_df, input_df.rows[r], c)
                      joined == Cell(filtered_df, filtered_df.rows[j], c)
                  IN  (InputIds[r] = GroupIds[j] /\ notna(v))
                          => Count(Split(joined, <<";", " ">>), v) = 1

\* C3 witness: two rows of one company with the same phone and different
\* emails were merged into one row
C3_Witness ==
    /\ phase = "consolidate_done"
    /\ Len(input_df.rows) = 2
    /\ Len(filtered_df.rows) = 1
    /\ HasCol(input_df, t.column_email) /\ HasCol(input_df, t.column_phone)
    /\ Cell(input_df, input_df.rows[1], t.column_phone) = <<"+", "1">>
    /\ Cell(input_df, input_df.rows[2], t.column_phone) = <<"+", "1">>
    /\ Cell(filtered_df, filtered_df.rows[1], t.column_phone) = <<"+", "1">>
    /\ Cell(filtered_df, filtered_df.rows[1], t.column_email)
           = <<"a", "@", "x", ";", " ", "b", "@", "X">>

---------------------------------------------------------------------------
(* Country detection                                                        *)

\* .str.replace(' ', '').str.replace('-', '')
NoSpacesOrHyphens(s) == RemoveChar(RemoveChar(s, " "), "-")

\* sorted(keys, key=len, reverse=True): a stable sort, so entries whose keys
\* have the same length keep their order in the dict
RECURSIVE SortedByLenDesc(_)
SortedByLenDesc(entries) ==
    IF entries = <<>> THEN <<>>
    ELSE LET longest == CHOOSE i \in 1..Len(entries) :
                 /\ \A j \in 1..Len(entries) : Len(entries[j].k) <= Len(entries[i].k)
                 /\ \A j \in 1..(i - 1) : Len(entries[j].k) < Len(entries[i].k)
         IN  <<entries[longest]>>
                 \o SortedByLenDesc(SelectAt(entries, (1..Len(entries)) \ {longest}))

\* prefixes = sorted([k for k in prefix_map if not k.startswith('+7')], ...)
GenericPrefixes(prefix_map) ==
    SortedByLenDesc(SelectAt(prefix_map,
        {i \in 1..Len(prefix_map) : ~StartsWith(prefix_map[i].k, <<"+", "7">>)}))

\* detect_country for one cell of the series
detect_country_cell(x, prefix_map) ==
    LET s == NoSpacesOrHyphens(IF x = NaN THEN <<>> ELSE x)
        mask_kz == \/ StartsWith(s, <<"+", "7", "6">>)
                   \/ StartsWith(s, <<"+", "7", "7">>)
                   \/ StartsWith(s, <<"+", "7", " ", "6">>)
                   \/ StartsWith(s, <<"+", "7", " ", "7">>)
        mask_ru == StartsWith(s, <<"+", "7">>) /\ ~mask_kz
        special == IF mask_kz THEN Label("Kazakhstan")
                   ELSE IF mask_ru THEN Label("Russian Federation")
                   ELSE Label("Unknown/No phone")
        prefixes == GenericPrefixes(prefix_map)
        \* for pre in prefixes: country[mask] = prefix_map[pre]
        Loop[i \in 0..Len(prefixes)] ==
            IF i = 0 THEN special
            ELSE IF StartsWith(s, NoSpacesOrHyphens(prefixes[i].k))
                 THEN prefixes[i].v
                 ELSE Loop[i - 1]
    IN  Loop[Len(prefixes)]

\* def detect_country(series, prefix_map)
detect_country(series, prefix_map) ==
    [r \in 1..Len(series) |-> detect_country_cell(series[r], prefix_map)]

---------------------------------------------------------------------------
(* Email filtering                                                          *)

\* [c for c in df.columns if df[c].astype(str).str.contains('@').any()]
email_cols(df) ==
    SelectAt(df.cols,
        {i \in 1..Len(df.cols) :
            \E r \in 1..Len(df.rows) : Contains(AsStr(df.rows[r][i]), <<"@">>)})

\* any(b in e for b in blacklist), e the lower-cased text of the cell
IsBad(x, blacklist) ==
    LET e == Lower(AsStr(x))
    IN  \E i \in 1..Len(blacklist) : Contains(e, blacklist[i])

\* def filter_emails(df, blacklist): every email column filters in turn
filter_emails(df, blacklist) ==
    LET cs == email_cols(df)
        Loop[i \in 0..Len(cs)] ==
            IF i = 0 THEN df
            ELSE SelectRows(Loop[i - 1],
                     {r \in 1..Len(Loop[i - 1].rows) :
                         ~IsBad(Cell(Loop[i - 1], Loop[i - 1].rows[r], cs[i]), blacklist)})
    IN  Loop[Len(cs)]

---------------------------------------------------------------------------
(* process_file                                                             *)

\* df.notna().sum() >= 100: the least count of non-missing cells a column
\* needs to be kept
MinNonMissing == 100

\* 1. Remove mostly empty columns early
remove_empty(df) ==
    SelectCols(df, {i \in 1..Len(df.cols) :
        Cardinality({r \in 1..Len(df.rows) : notna(df.rows[r][i])}) >= MinNonMissing})

\* The fallback column that is renamed to the phone column, or "None"
fallback_col(df) ==
    IF HasCol(df, "Column_1") THEN "Column_1"
    ELSE IF HasCol(df, "Telefon2") THEN "Telefon2"
    ELSE "None"

\* 3. df.drop_duplicates(subset=[email_cols[0], phone_col]): first of each pair
drop_duplicates(df, email_col, phone_col) ==
    SelectRows(df, {r \in 1..Len(df.rows) : \A q \in 1..(r - 1) :
        \/ Cell(df, df.rows[q], email_col) # Cell(df, df.rows[r], email_col)
        \/ Cell(df, df.rows[q], phone_col) # Cell(df, df.rows[r], phone_col)})

\* 7. reset_index(drop=True); index += 1; index.name = 'ID'
reset_index(df) ==
    [df EXCEPT !.index = [i \in 1..Len(df.rows) |-> i], !.index_name = "ID"]

\* def process_file(file_bytes, cfg, remove_empty_cols, remove_duplicates,
\* filter_emails_step, reset_index_step), with t the global locale table:
\* the table returned, and whether st.error was called
process_file(file, config, tg, tr) ==
    LET pruned == IF tg.remove_empty_cols THEN remove_empty(file) ELSE file
        fb == fallback_col(pruned)
        phone_col == tr.column_phone
        renamed == RenameCol(pruned, fb, phone_col)
        ecols == email_cols(renamed)
        deduped == IF tg.remove_duplicates /\ ecols # <<>>
                   THEN drop_duplicates(renamed, ecols[1], phone_col)
                   ELSE renamed
        fixed == SetColumn(deduped, phone_col,
                           [r \in 1..Len(deduped.rows) |->
                               NormalizePhoneCell(Cell(deduped, deduped.rows[r], phone_col))])
        detected == SetColumn(fixed, tr.column_country,
                              detect_country(Column(fixed, phone_col),
                                             config.phone_prefix_map))
        filtered == IF tg.filter_emails_step /\ ecols # <<>>
                    THEN SelectRows(detected,
                             {r \in 1..Len(detected.rows) :
                                 ~IsBad(Cell(detected, detected.rows[r], ecols[1]),
                                        config.email_blacklist)})
                    ELSE detected
        final == IF tg.reset_index_step THEN reset_index(filtered) ELSE filtered
    IN  IF fb = "None"
        THEN [df |-> pruned, error |-> TRUE]
        ELSE [df |-> final, error |-> FALSE]

---------------------------------------------------------------------------
(* The upload: process_file on the uploaded table, and the direct calls     *)

\* result_df = process_file(uploaded.read(), cfg, remove_empty_cols,
\*                          remove_duplicates, filter_emails_step, reset_index_step)
ProcessFile ==
    /\ phase = "upload"
    /\ LET res == process_file(input_df, cfg, toggles, t)
       IN  /\ result_df' = res.df
           /\ warnings' = IF res.error
                          THEN warnings \cup {"Column_1 is not present in the DataFrame."}
                          ELSE warnings
    /\ phase' = "processed"
    /\ UNCHANGED <<language, phone_hist, input_df, filtered_df, cfg, toggles, country,
                   sessionVars>>

\* filter_emails(df, blacklist) called on the uploaded table
CallFilterEmails ==
    /\ phase = "upload"
    /\ filtered_df' = filter_emails(input_df, cfg.email_blacklist)
    /\ phase' = "filtered"
    /\ UNCHANGED <<language, phone_hist, input_df, warnings, pipelineVars>>

\* detect_country(series, prefix_map) called on the uploaded phone column
CallDetectCountry ==
    /\ phase = "upload"
    /\ HasCol(input_df, "Column_1")
    /\ country' = detect_country(Column(input_df, "Column_1"), cfg.phone_prefix_map)
    /\ phase' = "detected"
    /\ UNCHANGED <<language, phone_hist, input_df, filtered_df, warnings,
                   cfg, toggles, result_df, sessionVars>>

\* Every setting of the four toggles
AllToggles ==
    [remove_empty_cols : BOOLEAN, remove_duplicates : BOOLEAN,
     filter_emails_step : BOOLEAN, reset_index_step : BOOLEAN]

\* The sequences over S of length at most n
SeqsUpTo(S, n) == UNION {[1..k -> S] : k \in 0..n}

---------------------------------------------------------------------------
(* Uploads that differ in their email column and in the blacklist           *)

MaxEmailLen == 2
MaxEmailRows == 2
MaxBlacklist == 1
EmailChars == {"h", "H", "@"}
EmailInputs == Texts(EmailChars, MaxEmailLen) \cup {NaN}
BlacklistEntries == {<<"h">>, <<"H">>, <<"n", "a">>, <<"h", "@">>}
Blacklists == SeqsUpTo(BlacklistEntries, MaxBlacklist) \cup {DefaultConfig.email_blacklist}

InitEmail ==
    /\ phase = "upload"
    /\ language = "English"
    /\ phone_hist = <<>>
    /\ input_df \in
          Tables(<<"Column_1", "Email">>, <<{<<"1">>}, EmailInputs>>, 0, MaxEmailRows)
          \cup Tables(<<"Email">>, <<EmailInputs>>, 1, 1)
          \cup Tables(<<"Column_1">>, <<{<<"1">>}>>, 1, 1)
    /\ filtered_df = EmptyDf
    /\ warnings = {}
    /\ cfg \in {[DefaultConfig EXCEPT !.email_blacklist = bl] : bl \in Blacklists}
    /\ toggles \in AllToggles
    /\ result_df = EmptyDf
    /\ country = <<>>
    /\ IdleSession

NextEmail == ProcessFile \/ CallFilterEmails

SpecEmail == InitEmail /\ [][NextEmail]_vars

\* process_file ran its email filter on the upload: the filter was enabled,
\* the run was not aborted and an email column was found
EmailFilterRan ==
    /\ phase = "processed"
    /\ toggles.filter_emails_step
    /\ HasCol(result_df, t.column_country)
    /\ email_cols(input_df) # <<>>

\* The first email column of the upload
FirstEmailCol == email_cols(input_df)[1]

\* Row r of the upload is row q of the result: same email, and the phone in
\* its normalized form
SameRow(r, q) ==
    /\ Cell(input_df, input_df.rows[r], FirstEmailCol)
           = Cell(result_df, result_df.rows[q], FirstEmailCol)
    /\ NormalizePhoneCell(Cell(input_df, input_df.rows[r], "Column_1"))
           = Cell(result_df, result_df.rows[q], t.column_phone)

\* C2: with the email filter enabled the output rows are a subset of the
\* input rows, and no retained row's first-email-column value contains a
\* blacklist entry as a substring, letter case ignored on both sides.
C2_FilterCaseInsensitive ==
    EmailFilterRan =>
        /\ Len(result_df.rows) <= Len(input_df.rows)
        /\ \A q \in 1..Len(result_df.rows) :
              /\ \E r \in 1..Len(input_df.rows) : SameRow(r, q)
              /\ LET e == Cell(result_df, result_df.rows[q], FirstEmailCol)
                 IN  notna(e) =>
                        \A i \in 1..Len(cfg.email_blacklist) :
                            ~Contains(Lower(e), Lower(cfg.email_blacklist[i]))

\* C10: with an email column and the filter enabled, a row whose email is
\* missing is never removed by the filter, whatever the blacklist.
C10_MissingEmailKept ==
    EmailFilterRan =>
        \A r \in 1..Len(input_df.rows) :
            Cell(input_df, input_df.rows[r], FirstEmailCol) = NaN
                => \E q \in 1..Len(result_df.rows) : SameRow(r, q)

---------------------------------------------------------------------------
(* Uploads that differ in their phone column and in the prefix map          *)

MaxCountryRows == 2
MaxPrefixes == 2
CountryPhones ==
    {NaN, <<>>, <<"1", "2">>, <<"+", "1", "2">>, <<"+", "1", "-", "2">>,
     <<"+", "2">>, <<"+", "7", "7">>, <<"+", "7", "1">>}
\* Dialing prefixes as the sidebar's "prefix:country" lines give them
PrefixKeys ==
    {<<"+", "1">>, <<"+", "1", "2">>, <<"+", "1", " ", "2">>, <<"+", "2">>,
     <<"+", "7">>, <<"+", "7", "7">>}
\* Any key a "prefix:country" line can give: the empty key (":X"), a bare
\* '+', a word, a prefix written with a space after the '+'
AnyKeys == {<<>>, <<"+">>, <<"n">>, <<"+", "1">>, <<"+", " ", "7">>}
PrefixLabels == <<Label("Country A"), Label("Country B"), Label("Country C")>>

\* The prefix maps of at most MaxPrefixes entries with distinct keys, in every
\* order; the i-th entry maps to the i-th label
PrefixMaps(keys) ==
    {[i \in 1..Len(ks) |-> [k |-> ks[i], v |-> PrefixLabels[i]]] :
        ks \in {q \in SeqsUpTo(keys, MaxPrefixes) :
                   \A i, j \in 1..Len(q) : i # j => q[i] # q[j]}}

InitCountryWith(keys) ==
    /\ phase = "upload"
    /\ language \in Languages
    /\ phone_hist = <<>>
    /\ input_df \in Tables(<<"Column_1">>, <<CountryPhones>>, 0, MaxCountryRows)
    /\ filtered_df = EmptyDf
    /\ warnings = {}
    /\ cfg \in {[DefaultConfig EXCEPT !.phone_prefix_map = m] : m \in PrefixMaps(keys)}
    /\ toggles \in {[DefaultToggles EXCEPT !.remove_empty_cols = b] : b \in BOOLEAN}
    /\ result_df = EmptyDf
    /\ country = <<>>
    /\ IdleSession

InitCountry == InitCountryWith(PrefixKeys)

InitCountryAnyKey == InitCountryWith(AnyKeys)

NextCountry == ProcessFile \/ CallDetectCountry

\* Prefix maps of dialing prefixes
SpecCountry == InitCountry /\ [][NextCountry]_vars

\* Prefix maps of arbitrary keys
SpecCountryAnyKey == InitCountryAnyKey /\ [][NextCountry]_vars

\* The entries of the prefix map whose key, spaces and hyphens removed, the
\* text s starts with
Matching(s) ==
    {i \in 1..Len(cfg.phone_prefix_map) :
        StartsWith(s, NoSpacesOrHyphens(cfg.phone_prefix_map[i].k))}

\* Those of them with the longest key
LongestMatching(s) ==
    {i \in Matching(s) : \A j \in Matching(s) :
        Len(NoSpacesOrHyphens(cfg.phone_prefix_map[j].k))
            <= Len(NoSpacesOrHyphens(cfg.phone_prefix_map[i].k))}

\* C1: detect_country labels a phone with the country of the longest
\* configured prefix its normalized form starts with, whatever the order of
\* the keys, also when a shorter key is a prefix of a longer one.  (Phones
\* under the '+7' rule and missing phones are left to C11 and C6.)
C1_LongestPrefixWins ==
    phase = "detected" =>
        \A r \in 1..Len(country) :
            LET x == Cell(input_df, input_df.rows[r], "Column_1")
                s == NoSpacesOrHyphens(AsStr(x))
            IN  (notna(x) /\ ~StartsWith(s, <<"+", "7">>) /\ Matching(s) # {})
                    => \E i \in LongestMatching(s) :
                           country[r] = cfg.phone_prefix_map[i].v

\* C6: country detection gives one label per row and the label
\* 'Unknown/No phone' to every row whose phone is missing, for every prefix
\* map, called directly and inside process_file after phone normalization.
C6_MissingPhoneUnknown ==
    /\ phase = "detected" =>
          /\ Len(country) = Len(input_df.rows)
          /\ \A r \in 1..Len(country) :
                Cell(input_df, input_df.rows[r], "Column_1") = NaN
                    => country[r] = Label("Unknown/No phone")
    /\ (phase = "processed" /\ HasCol(result_df, t.column_country)) =>
          /\ Len(result_df.rows) = Len(input_df.rows)
          /\ \A r \in 1..Len(result_df.rows) :
                Cell(input_df, input_df.rows[r], "Column_1") = NaN
                    => Cell(result_df, result_df.rows[r], t.column_country)
                           = Label("Unknown/No phone")

\* The phone of row r of the upload starts, spaces and hyphens removed, with p
PhoneStartsWith(r, p) ==
    LET x == Cell(input_df, input_df.rows[r], "Column_1")
    IN  notna(x) /\ StartsWith(NoSpacesOrHyphens(x), p)

\* C11: for every prefix map, detect_country labels a phone that starts with
\* '+76' or '+77' 'Kazakhstan' and any other phone that starts with '+7'
\* 'Russian Federation', whatever generic prefixes the map holds.
C11_SpecialRulePrecedence ==
    phase = "detected" =>
        \A r \in 1..Len(country) :
            LET kz == \/ PhoneStartsWith(r, <<"+", "7", "6">>)
                      \/ PhoneStartsWith(r, <<"+", "7", "7">>)
            IN  /\ kz => country[r] = Label("Kazakhstan")
                /\ (PhoneStartsWith(r, <<"+", "7">>) /\ ~kz)
                       => country[r] = Label("Russian Federation")

---------------------------------------------------------------------------
(* Uploads that differ in the name of their phone column                    *)

MaxUploadRows == 2
UploadPhones == {NaN, <<"1">>, <<"+", "1">>, <<"1", " ">>}
UploadEmails == {NaN, <<"a", "@">>, <<"b", "@">>}
\* The column names of the uploads that hold 'phone', letter case ignored
PhoneNamedCols == {"Phone", "Mobile phone"}
\* The names an upload gives its phone column
UploadPhoneCols == {"Column_1", "Telefon2"} \cup PhoneNamedCols

InitUpload ==
    /\ phase = "upload"
    /\ language \in Languages
    /\ phone_hist = <<>>
    /\ input_df \in
          UNION {Tables(<<c, "Email">>, <<UploadPhones, UploadEmails>>, 1, MaxUploadRows) :
                    c \in UploadPhoneCols}
          \cup Tables(<<"Email">>, <<UploadEmails>>, 1, MaxUploadRows)
    /\ filtered_df = EmptyDf
    /\ warnings = {}
    /\ cfg = DefaultConfig
    /\ toggles \in AllToggles
    /\ result_df = EmptyDf
    /\ country = <<>>
    /\ IdleSession

NextUpload == ProcessFile

SpecUpload == InitUpload /\ [][NextUpload]_vars

\* The upload as process_file holds it when it looks for the phone column
AtPhoneStep ==
    IF toggles.remove_empty_cols THEN remove_empty(input_df) ELSE input_df

\* process_file called st.error and returned early
Aborted == "Column_1 is not present in the DataFrame." \in warnings

\* C12: without a phone column and without a fallback column process_file
\* reports an error and returns the table as it stood, with no later step
\* applied; a table with a column whose name holds 'phone' is not aborted.
C12_AbortOnlyWithoutPhoneColumn ==
    phase = "processed" =>
        LET named == \E i \in 1..Len(AtPhoneStep.cols) :
                         AtPhoneStep.cols[i] \in PhoneNamedCols
        IN  /\ (~named /\ fallback_col(AtPhoneStep) = "None")
                   => (Aborted /\ result_df = AtPhoneStep)
            /\ named => ~Aborted

\* C18: with duplicate removal enabled and an email column present, no two
\* rows of the table process_file returns share the same pair of first
\* email value and phone value, the phone as the output holds it.
C18_NoDuplicatePairsInOutput ==
    (/\ phase = "processed"
     /\ toggles.remove_duplicates
     /\ ~Aborted
     /\ email_cols(AtPhoneStep) # <<>>) =>
        \A r, q \in 1..Len(result_df.rows) :
            (/\ Cell(result_df, result_df.rows[r], email_cols(AtPhoneStep)[1])
                    = Cell(result_df, result_df.rows[q], email_cols(AtPhoneStep)[1])
             /\ Cell(result_df, result_df.rows[r], t.column_phone)
                    = Cell(result_df, result_df.rows[q], t.column_phone))
                => r = q

---------------------------------------------------------------------------
(* The database upload: upload_to_postgres and confirm_upload.  The table   *)
(* filtered_data is absent or holds its columns and its committed rows.     *)
(* psycopg2 opens a transaction at the first statement and the code commits *)
(* once, after the loop; what an abandoned connection has not committed is  *)
(* never part of the table.                                                 *)

\* [str(x) if x is not None else None for x in row]
insert_values(row) == [i \in 1..Len(row) |-> AsStr(row[i])]

\* df.columns holds a name twice
HasDuplicateCols(df) ==
    \E i, j \in 1..Len(df.cols) : i # j /\ df.cols[i] = df.cols[j]

\* CREATE TABLE IF NOT EXISTS filtered_data (<col> TEXT, ...): the server
\* refuses a column list that names a column twice
create_table_fails(df) == HasDuplicateCols(df)

\* INSERT INTO filtered_data (<cols>) VALUES (...): the server refuses a
\* column the existing table does not have
insert_refused(table, df) ==
    /\ table.exists
    /\ \E i \in 1..Len(df.cols) : \A j \in 1..Len(table.cols) : table.cols[j] # df.cols[i]

\* conn.commit() after the loop: the table with the transaction's rows added,
\* created with the columns of df if it was absent
commit(table, df, pending) ==
    IF ~table.exists
    THEN [exists |-> TRUE, cols |-> df.cols, rows |-> pending]
    ELSE [table EXCEPT !.rows = table.rows \o pending]

\* The table with the attempt's rows kept although an insert failed
abandon_keeping_rows(table, df, pending) == commit(table, df, pending)

\* An exception leaves upload_to_postgres before conn.commit(): the
\* transaction is abandoned and the table is as it was
abandon(table, df, pending) == table

MaxDbRows == 2
MaxTableRows == 3
DbCells == {NaN, <<"a">>}
\* The table a session finds in the database
ExistingTables ==
    {NoTable,
     [exists |-> TRUE, cols |-> <<"Email", "Country">>,
      rows |-> << <<<<"z">>, <<"z">>>> >>],
     [exists |-> TRUE, cols |-> <<"Email">>, rows |-> <<>>]}

InitDatabase ==
    /\ phase = "exported"
    /\ language \in Languages
    /\ phone_hist = <<>>
    /\ input_df = EmptyDf
    /\ filtered_df \in
          Tables(<<"Email", "Country">>, <<DbCells, DbCells>>, 1, MaxDbRows)
          \cup Tables(<<"Email", "Email">>, <<DbCells, DbCells>>, 1, 1)
    /\ warnings = {}
    /\ cfg = DefaultConfig
    /\ toggles = DefaultToggles
    /\ result_df = EmptyDf
    /\ country = <<>>
    /\ config_file = <<>>
    /\ config_cache = <<>>
    /\ loaded = <<>>
    /\ saved = <<>>
    /\ file_cache = {}
    /\ db_table \in ExistingTables
    /\ db_pending = <<>>
    /\ preview = <<>>
    /\ download = <<>>
    /\ view = DefaultView

dbVars == <<db_table, db_pending>>

\* Everything but the phase, the messages and the database
notDbVars == <<language, phone_hist, input_df, filtered_df, cfg, toggles, result_df,
               country, config_file, config_cache, loaded, saved, file_cache,
               preview, download, view>>

\* The size the committed table may reach in a checked session
CanUpload ==
    /\ phase \in {"exported", "uploaded", "upload_failed"}
    /\ Len(db_table.rows) < MaxTableRows

\* "Add to database", "Yes": psycopg2.connect succeeds, cur.execute(create_table)
\* succeeds; the loop starts
ConfirmUpload ==
    /\ CanUpload
    /\ ~create_table_fails(filtered_df)
    /\ phase' = "uploading"
    /\ db_pending' = <<>>
    /\ UNCHANGED <<warnings, db_table, notDbVars>>

\* "Add to database", "Yes": psycopg2.connect or the CREATE TABLE raises;
\* confirm_upload catches it and shows t['upload_failed']
ConnectFails ==
    /\ CanUpload
    /\ phase' = "upload_failed"
    /\ db_pending' = <<>>
    /\ db_table' = abandon(db_table, filtered_df, <<>>)
    /\ warnings' = warnings \cup {"upload_failed"}
    /\ UNCHANGED notDbVars

\* "Add to database", "No": st.info(t['upload_cancelled']); st.rerun()
CancelUpload ==
    /\ CanUpload
    /\ phase' = "exported"
    /\ warnings' = warnings \cup {"upload_cancelled"}
    /\ UNCHANGED <<dbVars, notDbVars>>

\* One pass of `for _, row in df.iterrows()`: cur.execute(insert, ...) succeeds
InsertRow ==
    /\ phase = "uploading"
    /\ Len(db_pending) < Len(filtered_df.rows)
    /\ ~insert_refused(db_table, filtered_df)
    /\ db_pending' = Append(db_pending,
                            insert_values(filtered_df.rows[Len(db_pending) + 1]))
    /\ UNCHANGED <<phase, warnings, db_table, notDbVars>>

\* One pass of the loop: cur.execute(insert, ...) raises (a column the table
\* lacks, a value the server refuses, a lost connection); confirm_upload
\* catches it and shows t['upload_failed']
InsertFails ==
    /\ phase = "uploading"
    /\ Len(db_pending) < Len(filtered_df.rows)
    /\ phase' = "upload_failed"
    /\ db_table' = abandon(db_table, filtered_df, db_pending)
    /\ warnings' = warnings \cup {"upload_failed"}
    /\ UNCHANGED <<db_pending, notDbVars>>

\* After the loop: conn.commit(); cur.close(); conn.close(); st.success
CommitUpload ==
    /\ phase = "uploading"
    /\ Len(db_pending) = Len(filtered_df.rows)
    /\ phase' = "uploaded"
    /\ db_table' = commit(db_table, filtered_df, db_pending)
    /\ db_pending' = <<>>
    /\ warnings' = warnings \cup {"upload_success"}
    /\ UNCHANGED notDbVars

NextDatabase ==
    \/ ConfirmUpload
    \/ ConnectFails
    \/ CancelUpload
    \/ InsertRow
    \/ InsertFails
    \/ CommitUpload

SpecDatabase == InitDatabase /\ [][NextDatabase]_vars

\* C14 as stated: after an insert failed partway, the failure is shown and
\* the rows inserted earlier in that attempt are in the database table.
C14_EarlierRowsRemain ==
    phase = "upload_failed" =>
        /\ "upload_failed" \in warnings
        /\ \A i \in 1..Len(db_pending) :
              /\ db_table.exists
              /\ \E j \in 1..Len(db_table.rows) : db_table.rows[j] = db_pending[i]

\* C14 amended: a failed attempt is caught and shown, and the table holds
\* what it held before the attempt; only the commit that ends a successful
\* attempt changes the table.
C14_FailedAttemptLeavesTable ==
    [][/\ phase' # "uploaded" => db_table' = db_table
       /\ phase' = "upload_failed" => "upload_failed" \in warnings']_vars

\* An insert failed after an earlier insert of the same attempt succeeded
C14_Witness ==
    /\ phase = "upload_failed"
    /\ Len(db_pending) >= 1
    /\ Len(db_pending) < Len(filtered_df.rows)

---------------------------------------------------------------------------
(* The config store: load_config, save_config and config.json.  A dict is   *)
(* the sequence of its members in insertion order; a member holds its key   *)
(* and its value, a list of texts or a dict of texts.  The text of a JSON   *)
(* document is the sequence of its tokens.                                  *)

Member(key, kind, list, map) == [k |-> key, kind |-> kind, list |-> list, map |-> map]

\* {'email_blacklist': bl, 'phone_prefix_map': pm}
config_dict(bl, pm) ==
    <<Member("email_blacklist", "list", bl, <<>>),
      Member("phone_prefix_map", "dict", <<>>, pm)>>

\* `default` of load_config
default == config_dict(DefaultConfig.email_blacklist, DefaultConfig.phone_prefix_map)

\* key in d
has_key(d, key) == \E i \in 1..Len(d) : d[i].k = key

Punct(c) == Member("", c, <<>>, <<>>)
KeyToken(key) == Member(key, "key", <<>>, <<>>)
ValueToken(mem) == Member("", mem.kind, mem.list, mem.map)

\* json.dumps(cfg, indent=2): '{' key ':' value ',' key ':' value ... '}'
json_dumps(d) ==
    LET F[i \in 0..Len(d)] ==
            IF i = 0 THEN <<Punct("{")>>
            ELSE F[i - 1] \o (IF i > 1 THEN <<Punct(",")>> ELSE <<>>)
                         \o <<KeyToken(d[i].k), Punct(":"), ValueToken(d[i])>>
    IN  F[Len(d)] \o <<Punct("}")>>

\* The text is a JSON object: braces around key ':' value groups separated
\* by commas
IsJsonObject(text) ==
    /\ Len(text) >= 2
    /\ text[1] = Punct("{")
    /\ text[Len(text)] = Punct("}")
    /\ Len(text) = 2 \/ (Len(text) - 2) % 4 = 3
    /\ \A i \in 2..(Len(text) - 1) :
          CASE (i - 2) % 4 = 0 -> text[i].kind = "key"
            [] (i - 2) % 4 = 1 -> text[i] = Punct(":")
            [] (i - 2) % 4 = 2 -> text[i].kind \in {"list", "dict"}
            [] OTHER -> text[i] = Punct(",")

\* json.loads(text): the dict, a repeated key keeping its first place and
\* its last value; or JSONDecodeError
json_loads(text) ==
    IF ~IsJsonObject(text)
    THEN [ok |-> FALSE, value |-> <<>>]
    ELSE LET n == (Len(text) - 1) \div 4
             key(j) == text[4 * j - 2].k
             last(j) == CHOOSE m \in j..n :
                            key(m) = key(j) /\ \A q \in (m + 1)..n : key(q) # key(j)
             firsts == {j \in 1..n : \A q \in 1..(j - 1) : key(q) # key(j)}
             members == [j \in 1..n |->
                            LET v == text[4 * last(j)]
                            IN  Member(key(j), v.kind, v.list, v.map)]
         IN  [ok |-> TRUE, value |-> SelectAt(members, firsts)]

\* def load_config(), the cache missed: the value returned and whether
\* st.warning was called
load_config(file) ==
    IF file # <<>> /\ json_loads(file[1]).ok
    THEN [value |-> json_loads(file[1]).value, warned |-> FALSE]
    ELSE [value |-> default, warned |-> file # <<>>]

\* save_config with the cache entry of load_config left in place
save_config_no_clear(new, cache) == [file |-> <<json_dumps(new)>>, cache |-> cache]

\* def save_config(cfg): config.json written, load_config.clear()
save_config(new, cache) == [file |-> <<json_dumps(new)>>, cache |-> <<>>]

MaxLoads == 3
\* The configs the sidebar's "save settings" can build
SavedConfigs ==
    {default,
     config_dict(<<>>, <<>>),
     config_dict(<< <<"h", "r">> >>, << [k |-> <<"+", "2">>, v |-> Label("Country B")] >>)}
\* What config.json may hold when the session starts: a saved config, an
\* object without some key, or a text cut short
StoredTexts ==
    {json_dumps(c) : c \in SavedConfigs}
        \cup {json_dumps(<<>>), json_dumps(<<default[1]>>)}
        \cup {SubSeq(json_dumps(default), 1, n) : n \in 0..(Len(json_dumps(default)) - 1)}

InitConfig ==
    /\ phase = "start"
    /\ language \in Languages
    /\ phone_hist = <<>>
    /\ input_df = EmptyDf
    /\ filtered_df = EmptyDf
    /\ warnings = {}
    /\ cfg = DefaultConfig
    /\ toggles = DefaultToggles
    /\ result_df = EmptyDf
    /\ country = <<>>
    /\ config_file \in {<<>>} \cup {<<x>> : x \in StoredTexts}
    /\ config_cache = <<>>
    /\ loaded = <<>>
    /\ saved = <<>>
    /\ file_cache = {}
    /\ db_table = NoTable
    /\ db_pending = <<>>
    /\ preview = <<>>
    /\ download = <<>>
    /\ view = DefaultView

\* Everything but the phase, the messages and the config store
notConfigVars == <<language, phone_hist, input_df, filtered_df, cfg, toggles,
                   result_df, country, file_cache, db_table, db_pending,
                   preview, download, view>>

\* cfg = load_config(): st.cache_data returns the cached value if there is
\* one, else runs the function and caches what it returns
LoadConfig ==
    /\ Len(loaded) < MaxLoads
    /\ LET res == load_config(config_file)
           value == IF config_cache # <<>> THEN config_cache[1] ELSE res.value
       IN  /\ loaded' = Append(loaded, value)
           /\ config_cache' = <<value>>
           /\ warnings' = IF config_cache = <<>> /\ res.warned
                          THEN warnings \cup {"config.json is invalid; using defaults!"}
                          ELSE warnings
    /\ phase' = "loaded"
    /\ UNCHANGED <<config_file, saved, notConfigVars>>

\* "Save settings": cfg = {...}; save_config(cfg)
SaveSettings ==
    /\ \E new \in SavedConfigs :
          /\ config_file' = save_config(new, config_cache).file
          /\ config_cache' = save_config(new, config_cache).cache
          /\ saved' = <<new>>
    /\ phase' = "saved"
    /\ UNCHANGED <<loaded, warnings, notConfigVars>>

NextConfig == LoadConfig \/ SaveSettings

SpecConfig == InitConfig /\ [][NextConfig]_vars

\* config.json is there and is not a JSON document
Corrupt == config_file # <<>> /\ ~json_loads(config_file[1]).ok

\* C16: every value load_config returns has both keys; with config.json
\* missing or corrupt it is the default config, with a warning in the
\* corrupt case.
C16_LoadedConfigComplete ==
    phase = "loaded" =>
        LET value == loaded[Len(loaded)]
        IN  /\ has_key(value, "email_blacklist")
            /\ has_key(value, "phone_prefix_map")
            /\ (config_file = <<>> \/ Corrupt) => value = default
            /\ Corrupt => "config.json is invalid; using defaults!" \in warnings

\* C19: after any sequence of save_config and load_config calls, what
\* load_config returns is the config given to the latest save_config.
C19_LoadAfterSaveIsFresh ==
    (phase = "loaded" /\ saved # <<>>) => loaded[Len(loaded)] = saved[1]

\* load_config returned one config and cached it, another config was
\* saved, and load_config then returned the saved one
C19_Witness ==
    /\ phase = "loaded"
    /\ saved # <<>>
    /\ Len(loaded) >= 2
    /\ loaded[Len(loaded) - 1] # saved[1]
    /\ loaded[Len(loaded)] = saved[1]

---------------------------------------------------------------------------
(* One run of the script on an uploaded file: cached process_file, initial  *)
(* counts, filter section, consolidation, preview, export, duplicate check. *)
(* An exception that nothing catches ends the run: phase "raised", with the *)
(* exception among the messages.                                            *)

\* df.columns holds name more than once
Repeated(df, name) ==
    \E i, j \in 1..Len(df.cols) : i # j /\ df.cols[i] = name /\ df.cols[j] = name

\* industry_column of the first block: "Column_12", else "Kategoriya", else
\* the 14th column if there is one, else None
initial_industry_column(df) ==
    IF industry_column(df) # "None" THEN industry_column(df)
    ELSE IF Len(df.cols) > 13 THEN df.cols[14]
    ELSE "None"

\* The mapping block for a given industry column: the two category columns
\* are added unless both are there or there is no industry column
with_categories_from(df, ic, tr) ==
    IF ic # "None" /\ (~HasCol(df, tr.column_main_category)
                          \/ ~HasCol(df, tr.column_subcategory))
    THEN LET pairs == [r \in 1..Len(df.rows) |->
                          map_to_main_and_subcategory(Cell(df, df.rows[r], ic))]
         IN  SetColumn(SetColumn(df, tr.column_main_category,
                                 [r \in 1..Len(df.rows) |-> pairs[r][1]]),
                       tr.column_subcategory,
                       [r \in 1..Len(df.rows) |-> pairs[r][2]])
    ELSE df

\* df[name].dropna().unique(): the values a filter offers
available(df, name) ==
    IF HasCol(df, name)
    THEN {Column(df, name)[r] : r \in {q \in 1..Len(df.rows) : notna(Column(df, name)[q])}}
    ELSE {}

\* `if selected: df = df[df[name].isin(selected)]`
filter_isin(df, name, selected) ==
    IF selected = {} THEN df
    ELSE SelectRows(df, {r \in 1..Len(df.rows) : Cell(df, df.rows[r], name) \in selected})

\* value of the "number of rows" input
max_rows == 500000

\* filtered_df.head(max_rows)
head(df, n) == SelectRows(df, {r \in 1..Len(df.rows) : r <= n})

\* columns_to_drop of "remove unnecessary columns" (Cyrillic names in Latin)
UnnecessaryCols ==
    {"Status", "Column_2", "Column_4", "Column_5", "Column_6", "Column_7", "Column_8",
     "Column_12", "Imya", "Klyuchevye slova", "Zagolovok", "META Description",
     "META Keywords", "Domen", "PHONES", "Kategoriya", "Imya polzovatelya"}

\* The column names of the uploads that hold the given part: `part in col`
NamesWith(part) ==
    CASE part = "Column_3" -> {"Column_3"}
      [] part = "Istochnik" -> {"Istochnik"}
      [] part = "Column_9" -> {"Column_9"}
      [] part = "Column_10" -> {"Column_10"}
      [] part = "Gorod" -> {"Gorod"}
      [] part = "Column_11" -> {"Column_11"}
      [] part = "Indeks" -> {"Indeks"}
      [] part = "Email" -> {"Email", "Email 2"}
      [] part = "Znachenie" -> {"Znachenie"}

\* df.rename(columns={col: new for col in df.columns if a in col or b in col})
rename_where(df, parts, new) ==
    [df EXCEPT !.cols = [i \in 1..Len(df.cols) |->
        IF \E part \in parts : df.cols[i] \in NamesWith(part) THEN new ELSE df.cols[i]]]

\* The five renames of "rename columns", in the order of the script
rename_columns(df, tr) ==
    LET web == rename_where(df, {"Column_3", "Istochnik"}, tr.column_websites)
        a1 == rename_where(web, {"Column_9"}, tr.column_address_1)
        a2 == rename_where(a1, {"Column_10", "Gorod"}, tr.column_address_2)
        a3 == rename_where(a2, {"Column_11", "Indeks"}, tr.column_address_3)
    IN  rename_where(a3, {"Email", "Znachenie"}, tr.column_email)

\* Locale tables of category labels (translations.py, not at hand): a label
\* without an entry stays as it is
category_labels ==
    [English |-> <<>>,
     Russian |-> << [k |-> Label("Other"), v |-> Label("Drugoe")] >>]

\* `table.get(str(x).strip(), x) if pd.notna(x) else x`
translate_value(x, table) ==
    IF notna(x) /\ \E i \in 1..Len(table) : table[i].k = Strip(AsStr(x))
    THEN table[CHOOSE i \in 1..Len(table) : table[i].k = Strip(AsStr(x))].v
    ELSE x

\* The translation of the two category columns before the export
translate_categories(df, tr, table) ==
    LET tcol(d, name) ==
            IF HasCol(d, name)
            THEN SetColumn(d, name, [r \in 1..Len(d.rows) |->
                                        translate_value(Cell(d, d.rows[r], name), table)])
            ELSE d
    IN  tcol(tcol(df, tr.column_main_category), tr.column_subcategory)

\* to_excel(buf, index=False): the sheet has the columns and the rows
to_excel(df) ==
    [df EXCEPT !.index = [i \in 1..Len(df.rows) |-> i - 1], !.index_name = "None"]

\* filtered_df.loc[:, ~filtered_df.columns.duplicated(keep='first')]
drop_duplicate_cols(df) ==
    SelectCols(df, {i \in 1..Len(df.cols) : \A j \in 1..(i - 1) : df.cols[j] # df.cols[i]})

\* The st.cache_data key of a process_file call: its arguments
cache_key(file, config, tg) == [file |-> file, config |-> config, tg |-> tg]

MaxRunRows == 1
\* The sheets uploaded: with two columns that are both renamed to the email
\* column, with two that are both renamed to the websites column, without
\* an industry column, and with address parts
RunUploads ==
    Tables(<<"Column_1", "Column_12", "Email", "Email 2">>,
           <<{<<"+", "1">>}, {Label("Bakery"), Label("Unlisted trade")},
             {<<"a", "@", "x">>}, {<<"b", "@", "x">>}>>, 1, MaxRunRows)
    \cup Tables(<<"Column_1", "Column_12", "Column_3", "Istochnik">>,
                <<{<<"+", "1">>}, {Label("Bakery")}, {<<"h", ":", "/", "/", "x", "/", "y">>},
                  {<<"x">>}>>, 1, MaxRunRows)
    \cup Tables(<<"Column_1", "Email">>, <<{<<"+", "1">>, NaN}, {<<"a", "@", "x">>}>>,
                1, MaxRunRows)
    \cup Tables(<<"Column_1", "Column_9", "Column_10", "Column_11", "Column_12">>,
                <<{<<"+", "1">>}, {Label("United States/Canada")}, {<<"b">>},
                  {NaN}, {Label("Other"), NaN}>>, 1, MaxRunRows)

\* The toggles of the filter section, nothing selected
ViewToggles ==
    {[DefaultView EXCEPT !.remove_columns_toggle = a, !.rename_columns_toggle = b,
                         !.consolidate_rows = c] : a, b, c \in BOOLEAN}

InitRun ==
    /\ phase = "upload"
    /\ language \in Languages
    /\ phone_hist = <<>>
    /\ input_df \in RunUploads
    /\ filtered_df = EmptyDf
    /\ warnings = {}
    /\ cfg = DefaultConfig
    /\ toggles \in {[DefaultToggles EXCEPT !.remove_empty_cols = b] : b \in BOOLEAN}
    /\ result_df = EmptyDf
    /\ country = <<>>
    /\ config_file = <<>>
    /\ config_cache = <<>>
    /\ loaded = <<>>
    /\ saved = <<>>
    /\ file_cache = {}
    /\ db_table = NoTable
    /\ db_pending = <<>>
    /\ preview = <<>>
    /\ download = <<>>
    /\ view \in ViewToggles

\* What a run neither reads nor writes
notRunVars == <<phone_hist, country, config_file, config_cache, loaded, saved,
                db_table, db_pending>>

\* What every step of a run leaves alone
runInputs == <<language, input_df, cfg, toggles>>

\* result_df = process_file(uploaded.read(), cfg, ...) under st.cache_data:
\* the arguments are the key; t is a global and not part of it.  A hit
\* returns the stored table and replays the stored st.error.
RunProcessFile ==
    /\ phase = "upload"
    /\ LET key == cache_key(input_df, cfg, toggles)
           hit == \E e \in file_cache : e.key = key
           res == IF hit THEN (CHOOSE e \in file_cache : e.key = key).value
                  ELSE process_file(input_df, cfg, toggles, t)
       IN  /\ result_df' = res.df
           /\ file_cache' = IF hit THEN file_cache
                            ELSE file_cache \cup {[key |-> key, value |-> res]}
           /\ warnings' = IF res.error
                          THEN warnings \cup {"Column_1 is not present in the DataFrame."}
                          ELSE warnings
    /\ phase' = "processed"
    /\ UNCHANGED <<runInputs, filtered_df, preview, download, view, notRunVars>>

\* "Save initial row counts": the first mapping block, then
\* filtered_df.groupby([main, sub]), which raises KeyError without the two
\* columns, then the country counts
SaveInitialCounts ==
    /\ phase = "processed"
    /\ LET ic == initial_industry_column(result_df)
           mapped == with_categories_from(result_df, ic, t)
           grouped == HasCol(mapped, t.column_main_category)
                         /\ HasCol(mapped, t.column_subcategory)
           m1 == IF ic = "None" THEN {"Column_12 not found in the DataFrame1."} ELSE {}
           m2 == IF ~grouped THEN {"KeyError"}
                 ELSE IF ~HasCol(mapped, t.column_country)
                      THEN {"The country column does not exist in the DataFrame."}
                      ELSE {}
       IN  /\ filtered_df' = mapped
           /\ warnings' = warnings \cup m1 \cup m2
           /\ phase' = IF grouped THEN "counted" ELSE "raised"
    /\ UNCHANGED <<runInputs, result_df, file_cache, preview, download, view, notRunVars>>

\* The filter section: selections, second mapping block, filters, row
\* limit, removal and renaming of columns, address and website cleaning.
\* Cleaning raises ValueError when the column it reads is there twice.
FilterAndClean ==
    /\ phase = "counted"
    /\ \E countries \in SUBSET available(result_df, t.column_country) :
       LET ic == industry_column(result_df)
           mapped == with_categories_from(result_df, ic, t)
           has_categories == HasCol(mapped, t.column_main_category)
                                /\ HasCol(mapped, t.column_subcategory)
       IN  \E mains \in SUBSET (IF has_categories
                                 THEN available(mapped, t.column_main_category)
                                 ELSE {}) :
           LET by_country == filter_isin(mapped, t.column_country, countries)
               by_main == filter_isin(by_country, t.column_main_category, mains)
               limited == head(by_main, max_rows)
               removed == IF view.remove_columns_toggle
                          THEN DropCols(limited, UnnecessaryCols)
                          ELSE limited
               renamed == IF view.rename_columns_toggle
                          THEN rename_columns(removed, t)
                          ELSE removed
               address_raises ==
                   /\ HasAddressCols(renamed, t)
                   /\ \E c \in {t.column_address_1, t.column_address_2,
                                 t.column_address_3, t.column_country} :
                          Repeated(renamed, c)
               addressed == clean_address_columns(renamed, t)
               website_raises == Repeated(addressed, t.column_websites)
               m1 == IF ic = "None" THEN {"Column_12 not found in the DataFrame2."} ELSE {}
               m2 == IF HasAddressCols(renamed, t) THEN {}
                     ELSE {"address/country columns missing"}
           IN  /\ view' = [view EXCEPT !.selected_countries = countries,
                                       !.selected_main_categories = mains]
               /\ IF address_raises
                  THEN /\ filtered_df' = renamed
                       /\ warnings' = warnings \cup m1 \cup {"ValueError"}
                       /\ phase' = "raised"
                  ELSE IF website_raises
                  THEN /\ filtered_df' = addressed
                       /\ warnings' = warnings \cup m1 \cup m2 \cup {"ValueError"}
                       /\ phase' = "raised"
                  ELSE /\ filtered_df' = clean_website_column(addressed, t.column_websites)
                       /\ warnings' = warnings \cup m1 \cup m2
                       /\ phase' = "cleaned"
    /\ UNCHANGED <<runInputs, result_df, file_cache, preview, download, notRunVars>>

\* `if consolidate_rows:`; row[email_col] is a Series when the column is
\* there twice, and its truth test raises ValueError
ConsolidateStep ==
    /\ phase = "cleaned"
    /\ LET can == CanConsolidate(filtered_df, t)
           raises == \/ Repeated(filtered_df, t.column_email)
                     \/ Repeated(filtered_df, t.column_websites)
       IN  IF ~view.consolidate_rows
           THEN /\ phase' = "consolidated"
                /\ UNCHANGED <<filtered_df, warnings>>
           ELSE IF ~can
           THEN /\ phase' = "consolidated"
                /\ warnings' = warnings \cup {"no email or website column to consolidate"}
                /\ UNCHANGED filtered_df
           ELSE IF raises
           THEN /\ phase' = "raised"
                /\ warnings' = warnings \cup {"ValueError"}
                /\ UNCHANGED filtered_df
           ELSE /\ phase' = "consolidated"
                /\ filtered_df' = consolidate(filtered_df, t)
                /\ UNCHANGED warnings
    /\ UNCHANGED <<runInputs, result_df, file_cache, preview, download, view, notRunVars>>

\* filtered_df.empty: no row or no column
empty(df) == Len(df.rows) = 0 \/ Len(df.cols) = 0

\* "Display filtered preview": st.warning or st.dataframe(filtered_df)
ShowPreview ==
    /\ phase = "consolidated"
    /\ IF empty(filtered_df)
       THEN /\ warnings' = warnings \cup {"No data available for the selected filters."}
            /\ UNCHANGED preview
       ELSE /\ preview' = <<filtered_df>>
            /\ UNCHANGED warnings
    /\ phase' = "previewed"
    /\ UNCHANGED <<runInputs, result_df, filtered_df, file_cache, download, view,
                   notRunVars>>

\* st.dataframe of a table with a repeated column name: depending on the
\* Streamlit and pyarrow at hand the table is shown (ShowPreview) or the
\* conversion raises
PreviewRaises ==
    /\ phase = "consolidated"
    /\ ~empty(filtered_df)
    /\ HasDuplicateCols(filtered_df)
    /\ warnings' = warnings \cup {"ValueError"}
    /\ phase' = "raised"
    /\ UNCHANGED <<runInputs, result_df, filtered_df, file_cache, preview, download,
                   view, notRunVars>>

\* The category columns translated, then filtered_df.to_excel(buf, index=False)
\* behind the download button
Export ==
    /\ phase = "previewed"
    /\ filtered_df' = translate_categories(filtered_df, t, category_labels[language])
    /\ download' = <<to_excel(filtered_df')>>
    /\ phase' = "exported"
    /\ UNCHANGED <<runInputs, result_df, warnings, file_cache, preview, view, notRunVars>>

\* The end of the script: "After all renaming steps, drop duplicate columns
\* and warn if any were found"
DropDuplicateColumns ==
    /\ phase = "exported"
    /\ filtered_df' = IF HasDuplicateCols(filtered_df)
                      THEN drop_duplicate_cols(filtered_df)
                      ELSE filtered_df
    /\ warnings' = IF HasDuplicateCols(filtered_df)
                   THEN warnings \cup {"Duplicate column names found in preview after renaming"}
                   ELSE warnings
    /\ phase' = "done"
    /\ UNCHANGED <<runInputs, result_df, file_cache, preview, download, view, notRunVars>>

\* The language selectbox changed: the script runs again from the top with
\* the same uploaded file
SelectLanguage ==
    /\ phase \in {"done", "raised"}
    /\ \E l \in Languages \ {language} : language' = l
    /\ phase' = "upload"
    /\ warnings' = {}
    /\ preview' = <<>>
    /\ download' = <<>>
    /\ filtered_df' = EmptyDf
    /\ result_df' = EmptyDf
    /\ view' = [view EXCEPT !.selected_countries = {}, !.selected_main_categories = {}]
    /\ UNCHANGED <<input_df, cfg, toggles, file_cache, notRunVars>>

NextRun ==
    \/ RunProcessFile
    \/ SaveInitialCounts
    \/ FilterAndClean
    \/ ConsolidateStep
    \/ ShowPreview
    \/ PreviewRaises
    \/ Export
    \/ DropDuplicateColumns
    \/ SelectLanguage

SpecRun == InitRun /\ [][NextRun]_vars

\* process_file went through for the file of this run
Processed == phase \notin {"upload"} /\ ~Aborted

\* C13: when the processed table has no industry column the mapping is
\* skipped silently: no error about it is shown and the run does not raise.
C13_NoIndustryColumnSilent ==
    (phase \notin {"upload", "processed"}
        /\ initial_industry_column(result_df) = "None") =>
        /\ "Column_12 not found in the DataFrame1." \notin warnings
        /\ "Column_12 not found in the DataFrame2." \notin warnings
        /\ "KeyError" \notin warnings

\* The table the filter section renamed, before cleaning, has a column name
\* twice: what the script tests at its end
RenamedTwice ==
    /\ phase \in {"cleaned", "consolidated", "previewed", "exported", "raised"}
    /\ HasDuplicateCols(filtered_df)

\* C15: when renaming leaves a column name twice the run is not aborted,
\* the user is warned, and the preview and the downloaded sheet keep only
\* the first column of each name.
C15_FirstOccurrenceKept ==
    /\ RenamedTwice => "ValueError" \notin warnings
    /\ preview # <<>> => ~HasDuplicateCols(preview[1])
    /\ download # <<>> => ~HasDuplicateCols(download[1])

\* C17: whatever locales were selected before, the table the cached
\* process_file returns has its phone and country columns under the names
\* of the current locale.
C17_ColumnsInCurrentLocale ==
    Processed =>
        /\ HasCol(result_df, t.column_phone)
        /\ HasCol(result_df, t.column_country)

===========================================================================
